---- MODULE Spec2Model ----
(***************************************************************************)
(* Model of the statement dispatcher `execute` (src/executor/execute.rs)   *)
(* over an abstract storage backend.  The dispatcher is translated arm by  *)
(* arm from the source; the collaborators it calls (Store, get_table_name, *)
(* Row::new, fetch, Filter, Update) live outside execute.rs and are        *)
(* modelled from their contracts.                                          *)
(***************************************************************************)
EXTENDS Naturals, Sequences, FiniteSets

VARIABLES storage, pre, last

vars == <<storage, pre, last>>

(* ------------------------------ bounds --------------------------------- *)

\* Number of keys gen_id may hand out in one behaviour.
MaxId == 2

\* Longest name list of a DROP statement.
MaxNames == 2

(* ------------------------------ domains -------------------------------- *)

Tables == {"t1", "t2"}

\* An object name that does not reduce to a single table identifier.
BadName == "<malformed>"

Names == Tables \cup {BadName}

NULL == "NULL"

\* Values a row can hold.  A statement can also mention the text "x".
Values == {NULL, "1"}

TypeOf(v) == IF v = "x" THEN "text" ELSE "int"

\* Column lists a CREATE TABLE can declare.
ColumnLists == {<<"a">>, <<"a", "b">>}

NoSchema == << >>

Range(s) == {s[i] : i \in 1..Len(s)}

IndexOf(s, x) == CHOOSE i \in 1..Len(s) : s[i] = x /\ \A j \in 1..(i - 1) : s[j] # x

(* ------------------------------ results -------------------------------- *)

Ok(payload, count, row) ==
    [ok |-> TRUE, payload |-> payload, count |-> count, row |-> row, err |-> ""]

Err(e) ==
    [ok |-> FALSE, payload |-> "", count |-> 0, row |-> << >>, err |-> e]

\* What one run of execute leaves behind: storage, result, storage calls made.
Outcome(st, res, calls) == [st |-> st, res |-> res, calls |-> calls]

Call(op, arg, ok) == [op |-> op, arg |-> arg, ok |-> ok]

(* ------------------------ storage contract ----------------------------- *)
(* A storage state is [schemas, data, nextId]: schemas maps every table    *)
(* name to its column list (NoSchema when the table is unknown), data maps *)
(* each stored key to its row, nextId is the key generator.  A key is      *)
(* <<table, id>>.  Every operation returns [ok, st, val].                  *)

EmptyStore ==
    [schemas |-> [t \in Tables |-> NoSchema], data |-> << >>, nextId |-> 1]

Reply(ok, st, val) == [ok |-> ok, st |-> st, val |-> val]

\* set_schema: create or replace the table's schema; io is a backend fault.
set_schema(st, schema, io) ==
    IF io THEN Reply(FALSE, st, << >>)
    ELSE Reply(TRUE,
               [st EXCEPT !.schemas[schema.table_name] = schema.column_defs],
               << >>)

\* get_schema: fails if the table is unknown.
get_schema(st, t) ==
    IF st.schemas[t] = NoSchema THEN Reply(FALSE, st, << >>)
    ELSE Reply(TRUE, st, [table_name |-> t, column_defs |-> st.schemas[t]])

\* del_schema: fails if the table is unknown; removes the schema only.
del_schema(st, t, io) ==
    IF io \/ st.schemas[t] = NoSchema THEN Reply(FALSE, st, << >>)
    ELSE Reply(TRUE, [st EXCEPT !.schemas[t] = NoSchema], << >>)

\* gen_id: a fresh key for the table; io is a backend fault.
gen_id(st, t, io) ==
    IF io THEN Reply(FALSE, st, <<t, 0>>)
    ELSE Reply(TRUE, [st EXCEPT !.nextId = @ + 1], <<t, st.nextId>>)

\* set_data: persist the row at the key; returns the row as stored.
set_data(st, key, row, io) ==
    IF io THEN Reply(FALSE, st, << >>)
    ELSE Reply(TRUE,
               [st EXCEPT !.data = [k \in DOMAIN st.data \cup {key} |->
                                       IF k = key THEN row ELSE st.data[k]]],
               row)

\* del_data: remove the row at the key.
del_data(st, key, io) ==
    IF io THEN Reply(FALSE, st, << >>)
    ELSE Reply(TRUE,
               [st EXCEPT !.data = [k \in DOMAIN st.data \ {key} |-> st.data[k]]],
               << >>)

\* Keys of the table's stored rows.
KeysOf(st, t) == {k \in DOMAIN st.data : k[1] = t}

RECURSIVE Ascending(_)
Ascending(ks) ==
    IF ks = {} THEN << >>
    ELSE LET k == CHOOSE x \in ks : \A y \in ks : x[2] <= y[2]
         IN  <<k>> \o Ascending(ks \ {k})

\* The order in which an iteration over the table visits its rows.
ScanOrder(st, t) == Ascending(KeysOf(st, t))

(* --------------------------- collaborators ----------------------------- *)

\* get_table_name: the single table identifier of an object name.
get_table_name(name) ==
    IF name \in Tables THEN Reply(TRUE, << >>, name) ELSE Reply(FALSE, << >>, "")

\* The value of a column reference in a row laid out by columns.
ColumnValue(columns, row, c) ==
    IF c \notin Range(columns) \/ IndexOf(columns, c) > Len(row)
    THEN [ok |-> FALSE, val |-> NULL]
    ELSE [ok |-> TRUE, val |-> row[IndexOf(columns, c)]]

NoWhere == [op |-> "none", col |-> "", lit |-> NULL]

Eq(c, v) == [op |-> "eq", col |-> c, lit |-> v]

IsNull(c) == [op |-> "isnull", col |-> c, lit |-> NULL]

\* Filter::check: "true", "false", "unknown" or "error" for one row.
FilterCheck(selection, columns, row) ==
    IF selection.op = "none" THEN "true"
    ELSE LET cv == ColumnValue(columns, row, selection.col)
         IN  IF ~cv.ok THEN "error"
             ELSE IF selection.op = "isnull"
             THEN IF cv.val = NULL THEN "true" ELSE "false"
             ELSE IF cv.val = NULL \/ selection.lit = NULL THEN "unknown"
             ELSE IF TypeOf(cv.val) # TypeOf(selection.lit) THEN "error"
             ELSE IF cv.val = selection.lit THEN "true"
             ELSE "false"

Lit(v) == [op |-> "lit", col |-> "", lit |-> v]

Col(c) == [op |-> "col", col |-> c, lit |-> NULL]

Assign(c, e) == [id |-> c, value |-> e]

\* Update::new: every assignment target must be a column of the table.
UpdateNew(assignments, columns) ==
    \A i \in 1..Len(assignments) : assignments[i].id \in Range(columns)

\* An assignment expression evaluated against a row.
Evaluate(columns, row, e) ==
    IF e.op = "lit" THEN [ok |-> TRUE, val |-> e.lit]
    ELSE ColumnValue(columns, row, e.col)

\* The assignments that target the column at position i.
Targeting(assignments, columns, i) ==
    {j \in 1..Len(assignments) : assignments[j].id = columns[i]}

\* The assignments applied in turn, each expression evaluated against the row
\* as the assignments before it left it.
RECURSIVE ApplySequential(_, _, _)
ApplySequential(assignments, columns, row) ==
    IF assignments = << >> THEN [ok |-> TRUE, val |-> row]
    ELSE LET a == Head(assignments)
             v == Evaluate(columns, row, a.value)
         IN  IF ~v.ok \/ IndexOf(columns, a.id) > Len(row)
             THEN [ok |-> FALSE, val |-> << >>]
             ELSE ApplySequential(Tail(assignments), columns,
                                  [row EXCEPT ![IndexOf(columns, a.id)] = v.val])

\* Update::apply: every expression is evaluated against the original row; the
\* values are substituted into a copy, the other columns carried over.
UpdateApply(assignments, columns, row) ==
    IF \E j \in 1..Len(assignments) :
           \/ ~Evaluate(columns, row, assignments[j].value).ok
           \/ IndexOf(columns, assignments[j].id) > Len(row)
    THEN [ok |-> FALSE, val |-> << >>]
    ELSE [ok |-> TRUE,
          val |-> [i \in 1..Len(row) |->
                     IF i <= Len(columns) /\ Targeting(assignments, columns, i) # {}
                     THEN LET j == CHOOSE x \in Targeting(assignments, columns, i) :
                                      \A y \in Targeting(assignments, columns, i) : y <= x
                          IN  Evaluate(columns, row, assignments[j].value).val
                     ELSE row[i]]]

\* Row::new: the values bound to the table's columns, named or positional.
RowNew(column_defs, columns, values) ==
    IF columns = << >>
    THEN IF Len(values) = Len(column_defs)
         THEN [ok |-> TRUE, val |-> values]
         ELSE [ok |-> FALSE, val |-> << >>]
    ELSE IF /\ Len(columns) = Len(values)
            /\ Range(columns) = Range(column_defs)
            /\ Len(columns) = Len(column_defs)
         THEN [ok |-> TRUE,
               val |-> [i \in 1..Len(column_defs) |->
                          values[IndexOf(columns, column_defs[i])]]]
         ELSE [ok |-> FALSE, val |-> << >>]

\* fetch_columns: the column names of the table's schema.
fetch_columns(st, t) == get_schema(st, t)

\* fetch: the next row of the scan that passes the filter.  Rows are read as
\* they are visited; a row the filter rejects is passed over, a row on which
\* the filter fails is yielded as that error.
RECURSIVE FetchNext(_, _, _, _)
FetchNext(st, keys, columns, selection) ==
    IF keys = << >> THEN [done |-> TRUE, ok |-> TRUE, key |-> <<"", 0>>,
                          row |-> << >>, rest |-> << >>]
    ELSE LET m == FilterCheck(selection, columns, st.data[Head(keys)])
         IN  IF m = "error"
             THEN [done |-> FALSE, ok |-> FALSE, key |-> Head(keys),
                   row |-> << >>, rest |-> Tail(keys)]
             ELSE IF m = "true"
             THEN [done |-> FALSE, ok |-> TRUE, key |-> Head(keys),
                   row |-> st.data[Head(keys)], rest |-> Tail(keys)]
             ELSE FetchNext(st, Tail(keys), columns, selection)

\* select: the rows of the table that pass the query's filter, in scan order.
RECURSIVE SelectRows(_, _, _, _)
SelectRows(st, keys, columns, selection) ==
    LET item == FetchNext(st, keys, columns, selection)
    IN  IF item.done THEN [ok |-> TRUE, val |-> << >>]
        ELSE IF ~item.ok THEN [ok |-> FALSE, val |-> << >>]
        ELSE LET more == SelectRows(st, item.rest, columns, selection)
             IN  IF more.ok THEN [ok |-> TRUE, val |-> <<item.row>> \o more.val]
                 ELSE more

(* ------------------------------ execute -------------------------------- *)
(* Every arm takes the storage state, the statement and fault: the number, *)
(* among the calls to the backend the arm makes after it has looked up the *)
(* schema, of the one the backend rejects (0: none).  An INSERT's first    *)
(* such call is gen_id and its second set_data; a SELECT's, UPDATE's or    *)
(* DELETE's first is the opening of the scan, and the write or removal of  *)
(* the n-th matched row is call n + 1.                                     *)

TableOp(t) == <<t, 0>>

Reverse(s) == [i \in 1..Len(s) |-> s[Len(s) + 1 - i]]

\* CREATE TABLE's schema with the declared columns in the opposite order.
SchemaReversed(table_name, columns) ==
    [table_name |-> table_name, column_defs |-> Reverse(columns)]

\* CREATE TABLE's schema: the resolved name and the declared columns.
Schema(table_name, columns) ==
    [table_name |-> table_name, column_defs |-> columns]

ExecCreateTable(st, stmt, fault) ==
    LET name == get_table_name(stmt.name)
        schema == Schema(name.val, stmt.columns)
        w == set_schema(st, schema, fault = 1)
    IN  IF ~name.ok THEN Outcome(st, Err("TableName"), << >>)
        ELSE IF ~w.ok
        THEN Outcome(st, Err("Storage"), <<Call("set_schema", TableOp(name.val), FALSE)>>)
        ELSE Outcome(w.st, Ok("Create", 0, << >>),
                     <<Call("set_schema", TableOp(name.val), TRUE)>>)

\* SELECT answering with the rows collected so far when an element of the
\* sequence is an error.
ExecQueryLossy(st, stmt, fault) ==
    LET name == get_table_name(stmt.table_name)
        schema == get_schema(st, name.val)
        rows == SelectRows(st, ScanOrder(st, name.val), schema.val.column_defs,
                           stmt.selection)
    IN  IF ~name.ok THEN Outcome(st, Err("TableName"), << >>)
        ELSE IF ~schema.ok
        THEN Outcome(st, Err("Schema"), <<Call("get_schema", TableOp(name.val), FALSE)>>)
        ELSE IF fault = 1
        THEN Outcome(st, Err("Storage"),
                     <<Call("get_schema", TableOp(name.val), TRUE),
                       Call("fetch", TableOp(name.val), FALSE)>>)
        ELSE Outcome(st, Ok("Select", 0, rows.val),
                     <<Call("get_schema", TableOp(name.val), TRUE),
                       Call("fetch", TableOp(name.val), TRUE)>>)

ExecQuery(st, stmt, fault) ==
    LET name == get_table_name(stmt.table_name)
        schema == get_schema(st, name.val)
        rows == SelectRows(st, ScanOrder(st, name.val), schema.val.column_defs,
                           stmt.selection)
    IN  IF ~name.ok THEN Outcome(st, Err("TableName"), << >>)
        ELSE IF ~schema.ok
        THEN Outcome(st, Err("Schema"), <<Call("get_schema", TableOp(name.val), FALSE)>>)
        ELSE IF fault = 1
        THEN Outcome(st, Err("Storage"),
                     <<Call("get_schema", TableOp(name.val), TRUE),
                       Call("fetch", TableOp(name.val), FALSE)>>)
        ELSE IF ~rows.ok
        THEN Outcome(st, Err("Evaluate"),
                     <<Call("get_schema", TableOp(name.val), TRUE),
                       Call("fetch", TableOp(name.val), TRUE)>>)
        ELSE Outcome(st, Ok("Select", 0, rows.val),
                     <<Call("get_schema", TableOp(name.val), TRUE),
                       Call("fetch", TableOp(name.val), TRUE)>>)

\* The key an INSERT stores its row under, with a generator that repeats itself.
InsertKeyStale(st, t, io) ==
    IF io THEN gen_id(st, t, io)
    ELSE Reply(TRUE, [st EXCEPT !.nextId = @ + 1], <<t, 1>>)

\* The key an INSERT stores its row under: the one gen_id returns.
InsertKey(st, t, io) == gen_id(st, t, io)

\* INSERT constructing the row before it asks storage for a key.
ExecInsertRowFirst(st, stmt, fault) ==
    LET name == get_table_name(stmt.table_name)
        schema == get_schema(st, name.val)
        row == RowNew(schema.val.column_defs, stmt.columns, stmt.source)
        key == InsertKey(schema.st, name.val, fault = 1)
        w == set_data(key.st, key.val, row.val, fault = 2)
        c1 == <<Call("get_schema", TableOp(name.val), TRUE)>>
        c2 == c1 \o <<Call("gen_id", key.val, TRUE)>>
    IN  IF ~name.ok THEN Outcome(st, Err("TableName"), << >>)
        ELSE IF ~schema.ok
        THEN Outcome(st, Err("Schema"), <<Call("get_schema", TableOp(name.val), FALSE)>>)
        ELSE IF ~row.ok THEN Outcome(st, Err("Row"), c1)
        ELSE IF ~key.ok
        THEN Outcome(st, Err("Storage"), c1 \o <<Call("gen_id", key.val, FALSE)>>)
        ELSE IF ~w.ok
        THEN Outcome(key.st, Err("Storage"), c2 \o <<Call("set_data", key.val, FALSE)>>)
        ELSE Outcome(w.st, Ok("Insert", 0, w.val),
                     c2 \o <<Call("set_data", key.val, TRUE)>>)

ExecInsert(st, stmt, fault) ==
    LET name == get_table_name(stmt.table_name)
        schema == get_schema(st, name.val)
        key == InsertKey(schema.st, name.val, fault = 1)
        row == RowNew(schema.val.column_defs, stmt.columns, stmt.source)
        w == set_data(key.st, key.val, row.val, fault = 2)
        c1 == <<Call("get_schema", TableOp(name.val), TRUE)>>
        c2 == c1 \o <<Call("gen_id", key.val, TRUE)>>
    IN  IF ~name.ok THEN Outcome(st, Err("TableName"), << >>)
        ELSE IF ~schema.ok
        THEN Outcome(st, Err("Schema"), <<Call("get_schema", TableOp(name.val), FALSE)>>)
        ELSE IF ~key.ok
        THEN Outcome(st, Err("Storage"), c1 \o <<Call("gen_id", key.val, FALSE)>>)
        ELSE IF ~row.ok THEN Outcome(key.st, Err("Row"), c2)
        ELSE IF ~w.ok
        THEN Outcome(key.st, Err("Storage"), c2 \o <<Call("set_data", key.val, FALSE)>>)
        ELSE Outcome(w.st, Ok("Insert", 0, w.val),
                     c2 \o <<Call("set_data", key.val, TRUE)>>)

\* What a step of a fold over the scan leaves: the storage, the count, the
\* calls it made and, when it failed, the error.
Step(ok, st, num, calls, err) ==
    [ok |-> ok, st |-> st, num |-> num, calls |-> calls, err |-> err]

\* UPDATE's map closure applying the assignments one after another, each to
\* the row the one before it left.
UpdateItemSequential(item, assignments, columns) ==
    IF ~item.ok THEN [ok |-> FALSE, key |-> item.key, row |-> << >>]
    ELSE LET applied == ApplySequential(assignments, columns, item.row)
         IN  [ok |-> applied.ok, key |-> item.key, row |-> applied.val]

\* UPDATE's map closure: the fetched item with the assignments applied.
UpdateItem(item, assignments, columns) ==
    IF ~item.ok THEN [ok |-> FALSE, key |-> item.key, row |-> << >>]
    ELSE LET applied == UpdateApply(assignments, columns, item.row)
         IN  [ok |-> applied.ok, key |-> item.key, row |-> applied.val]

\* UPDATE's fold closure writing every row under a freshly generated key.
UpdateWriteFresh(st, num, item, fault) ==
    IF ~item.ok THEN Step(FALSE, st, num, << >>, "Evaluate")
    ELSE LET key == gen_id(st, item.key[1], FALSE)
             w == set_data(key.st, key.val, item.row, fault = num + 2)
         IN  IF ~w.ok
             THEN Step(FALSE, st, num, <<Call("set_data", key.val, FALSE)>>, "Storage")
             ELSE Step(TRUE, w.st, num + 1, <<Call("set_data", key.val, TRUE)>>, "")

\* UPDATE's fold closure counting a row it could not write as written.
UpdateWriteLenient(st, num, item, fault) ==
    IF ~item.ok THEN Step(TRUE, st, num + 1, << >>, "")
    ELSE LET w == set_data(st, item.key, item.row, fault = num + 2)
         IN  Step(TRUE, w.st, num + 1, <<Call("set_data", item.key, w.ok)>>, "")

\* UPDATE's fold closure writing the row twice and counting it once.
UpdateWriteTwice(st, num, item, fault) ==
    IF ~item.ok THEN Step(FALSE, st, num, << >>, "Evaluate")
    ELSE LET w == set_data(st, item.key, item.row, fault = num + 2)
         IN  IF ~w.ok
             THEN Step(FALSE, st, num, <<Call("set_data", item.key, FALSE)>>, "Storage")
             ELSE Step(TRUE, w.st, num + 1,
                       <<Call("set_data", item.key, TRUE),
                         Call("set_data", item.key, TRUE)>>, "")

\* UPDATE's fold closure: the item's error, or the row written back at its key.
UpdateWrite(st, num, item, fault) ==
    IF ~item.ok THEN Step(FALSE, st, num, << >>, "Evaluate")
    ELSE LET w == set_data(st, item.key, item.row, fault = num + 2)
         IN  IF ~w.ok
             THEN Step(FALSE, st, num, <<Call("set_data", item.key, FALSE)>>, "Storage")
             ELSE Step(TRUE, w.st, num + 1, <<Call("set_data", item.key, TRUE)>>, "")

\* UPDATE's scan stopping after the first row it rewrote.
UpdateFoldFirstOnly(st, keys, stmt, columns, fault, num, calls) ==
    LET next == FetchNext(st, keys, columns, stmt.selection)
        step == UpdateWrite(st, num, UpdateItem(next, stmt.assignments, columns), fault)
        made == calls \o <<Call("next", next.key, next.ok)>> \o step.calls
    IN  IF next.done THEN Outcome(st, Ok("Update", num, << >>), calls)
        ELSE IF ~step.ok THEN Outcome(st, Err(step.err), made)
        ELSE Outcome(step.st, Ok("Update", step.num, << >>), made)

\* UPDATE's scan: each matched row is rewritten as soon as it is fetched.
RECURSIVE UpdateFold(_, _, _, _, _, _, _)
UpdateFold(st, keys, stmt, columns, fault, num, calls) ==
    LET next == FetchNext(st, keys, columns, stmt.selection)
        step == UpdateWrite(st, num, UpdateItem(next, stmt.assignments, columns), fault)
        made == calls \o <<Call("next", next.key, next.ok)>> \o step.calls
    IN  IF next.done THEN Outcome(st, Ok("Update", num, << >>), calls)
        ELSE IF ~step.ok THEN Outcome(st, Err(step.err), made)
        ELSE UpdateFold(step.st, next.rest, stmt, columns, fault, step.num, made)

\* UPDATE opening the scan before it validates the assignments.
ExecUpdateFetchFirst(st, stmt, fault) ==
    LET name == get_table_name(stmt.table_name)
        schema == fetch_columns(st, name.val)
        c1 == <<Call("get_schema", TableOp(name.val), TRUE)>>
        c2 == c1 \o <<Call("fetch", TableOp(name.val), TRUE)>>
    IN  IF ~name.ok THEN Outcome(st, Err("TableName"), << >>)
        ELSE IF ~schema.ok
        THEN Outcome(st, Err("Schema"), <<Call("get_schema", TableOp(name.val), FALSE)>>)
        ELSE IF fault = 1
        THEN Outcome(st, Err("Storage"),
                     c1 \o <<Call("fetch", TableOp(name.val), FALSE)>>)
        ELSE IF ~UpdateNew(stmt.assignments, schema.val.column_defs)
        THEN Outcome(st, Err("Update"), c2)
        ELSE UpdateFold(st, ScanOrder(st, name.val), stmt, schema.val.column_defs,
                        fault, 0, c2)

ExecUpdate(st, stmt, fault) ==
    LET name == get_table_name(stmt.table_name)
        schema == fetch_columns(st, name.val)
        c1 == <<Call("get_schema", TableOp(name.val), TRUE)>>
    IN  IF ~name.ok THEN Outcome(st, Err("TableName"), << >>)
        ELSE IF ~schema.ok
        THEN Outcome(st, Err("Schema"), <<Call("get_schema", TableOp(name.val), FALSE)>>)
        ELSE IF ~UpdateNew(stmt.assignments, schema.val.column_defs)
        THEN Outcome(st, Err("Update"), c1)
        ELSE IF fault = 1
        THEN Outcome(st, Err("Storage"),
                     c1 \o <<Call("fetch", TableOp(name.val), FALSE)>>)
        ELSE UpdateFold(st, ScanOrder(st, name.val), stmt, schema.val.column_defs,
                        fault, 0, c1 \o <<Call("fetch", TableOp(name.val), TRUE)>>)

\* DELETE's fold closure removing the row without counting it.
DeleteStepUncounted(st, num, item, fault) ==
    IF ~item.ok THEN Step(FALSE, st, num, << >>, "Evaluate")
    ELSE LET w == del_data(st, item.key, fault = num + 2)
         IN  IF ~w.ok
             THEN Step(FALSE, st, num, <<Call("del_data", item.key, FALSE)>>, "Storage")
             ELSE Step(TRUE, w.st, num, <<Call("del_data", item.key, TRUE)>>, "")

\* DELETE's fold closure passing over an item that is an error.
DeleteStepSkipErrors(st, num, item, fault) ==
    IF ~item.ok THEN Step(TRUE, st, num, << >>, "")
    ELSE LET w == del_data(st, item.key, fault = num + 2)
         IN  IF ~w.ok
             THEN Step(FALSE, st, num, <<Call("del_data", item.key, FALSE)>>, "Storage")
             ELSE Step(TRUE, w.st, num + 1, <<Call("del_data", item.key, TRUE)>>, "")

\* DELETE's fold closure: the item's error, or the row at its key removed.
DeleteStep(st, num, item, fault) ==
    IF ~item.ok THEN Step(FALSE, st, num, << >>, "Evaluate")
    ELSE LET w == del_data(st, item.key, fault = num + 2)
         IN  IF ~w.ok
             THEN Step(FALSE, st, num, <<Call("del_data", item.key, FALSE)>>, "Storage")
             ELSE Step(TRUE, w.st, num + 1, <<Call("del_data", item.key, TRUE)>>, "")

\* The rows a scan yields when it is run to its end before any row is removed.
RECURSIVE PullAll(_, _, _, _)
PullAll(st, keys, columns, selection) ==
    LET next == FetchNext(st, keys, columns, selection)
    IN  IF next.done THEN [ok |-> TRUE, items |-> << >>, calls |-> << >>]
        ELSE IF ~next.ok
        THEN [ok |-> FALSE, items |-> << >>,
              calls |-> <<Call("next", next.key, FALSE)>>]
        ELSE LET more == PullAll(st, next.rest, columns, selection)
             IN  [ok |-> more.ok, items |-> <<next>> \o more.items,
                  calls |-> <<Call("next", next.key, TRUE)>> \o more.calls]

RECURSIVE DeleteAll(_, _, _, _, _)
DeleteAll(st, items, fault, num, calls) ==
    IF items = << >> THEN Outcome(st, Ok("Delete", num, << >>), calls)
    ELSE LET w == del_data(st, Head(items).key, fault = num + 2)
         IN  IF ~w.ok
             THEN Outcome(st, Err("Storage"),
                          calls \o <<Call("del_data", Head(items).key, FALSE)>>)
             ELSE DeleteAll(w.st, Tail(items), fault, num + 1,
                            calls \o <<Call("del_data", Head(items).key, TRUE)>>)

\* DELETE's scan collected first: the rows are removed as a batch after the
\* last one was fetched.
DeleteFoldBatched(st, keys, stmt, columns, fault, num, calls) ==
    LET pulled == PullAll(st, keys, columns, stmt.selection)
    IN  IF ~pulled.ok THEN Outcome(st, Err("Evaluate"), calls \o pulled.calls)
        ELSE DeleteAll(st, pulled.items, fault, num, calls \o pulled.calls)

\* DELETE's scan: each matched row is removed as soon as it is fetched.
RECURSIVE DeleteFold(_, _, _, _, _, _, _)
DeleteFold(st, keys, stmt, columns, fault, num, calls) ==
    LET next == FetchNext(st, keys, columns, stmt.selection)
        step == DeleteStep(st, num, next, fault)
        made == calls \o <<Call("next", next.key, next.ok)>> \o step.calls
    IN  IF next.done THEN Outcome(st, Ok("Delete", num, << >>), calls)
        ELSE IF ~step.ok THEN Outcome(st, Err(step.err), made)
        ELSE DeleteFold(step.st, next.rest, stmt, columns, fault, step.num, made)

ExecDelete(st, stmt, fault) ==
    LET name == get_table_name(stmt.table_name)
        schema == fetch_columns(st, name.val)
    IN  IF ~name.ok THEN Outcome(st, Err("TableName"), << >>)
        ELSE IF ~schema.ok
        THEN Outcome(st, Err("Schema"), <<Call("get_schema", TableOp(name.val), FALSE)>>)
        ELSE IF fault = 1
        THEN Outcome(st, Err("Storage"),
                     <<Call("get_schema", TableOp(name.val), TRUE),
                       Call("fetch", TableOp(name.val), FALSE)>>)
        ELSE DeleteFold(st, ScanOrder(st, name.val), stmt, schema.val.column_defs,
                        fault, 0,
                        <<Call("get_schema", TableOp(name.val), TRUE),
                          Call("fetch", TableOp(name.val), TRUE)>>)

\* DROP's loop resolving every name before it removes the first schema.
RECURSIVE DropNamesResolveFirst(_, _, _, _, _)
DropNamesResolveFirst(st, names, i, fault, calls) ==
    IF \E j \in 1..Len(names) : ~get_table_name(names[j]).ok
    THEN Outcome(st, Err("TableName"), calls)
    ELSE IF i > Len(names) THEN Outcome(st, Ok("DropTable", 0, << >>), calls)
    ELSE LET w == del_schema(st, names[i], fault = i)
         IN  IF ~w.ok
             THEN Outcome(st, Err("Storage"),
                          calls \o <<Call("del_schema", TableOp(names[i]), FALSE)>>)
             ELSE DropNamesResolveFirst(w.st, names, i + 1, fault,
                          calls \o <<Call("del_schema", TableOp(names[i]), TRUE)>>)

\* DROP's loop leaving after the first name.
DropNamesFirstOnly(st, names, i, fault, calls) ==
    LET name == get_table_name(names[1])
        w == del_schema(st, name.val, fault = 1)
    IN  IF ~name.ok THEN Outcome(st, Err("TableName"), calls)
        ELSE IF ~w.ok
        THEN Outcome(st, Err("Storage"),
                     calls \o <<Call("del_schema", TableOp(name.val), FALSE)>>)
        ELSE Outcome(w.st, Ok("DropTable", 0, << >>),
                     calls \o <<Call("del_schema", TableOp(name.val), TRUE)>>)

\* DROP's loop over the names: resolve the i-th name, remove its schema.
RECURSIVE DropNames(_, _, _, _, _)
DropNames(st, names, i, fault, calls) ==
    IF i > Len(names) THEN Outcome(st, Ok("DropTable", 0, << >>), calls)
    ELSE LET name == get_table_name(names[i])
             w == del_schema(st, name.val, fault = i)
         IN  IF ~name.ok THEN Outcome(st, Err("TableName"), calls)
             ELSE IF ~w.ok
             THEN Outcome(st, Err("Storage"),
                          calls \o <<Call("del_schema", TableOp(name.val), FALSE)>>)
             ELSE DropNames(w.st, names, i + 1, fault,
                            calls \o <<Call("del_schema", TableOp(name.val), TRUE)>>)

\* DROP with the object kind looked at only after the names were processed.
ExecDropLateCheck(st, stmt, fault) ==
    LET done == DropNames(st, stmt.names, 1, fault, << >>)
    IN  IF done.res.ok /\ stmt.object_type # "Table"
        THEN Outcome(done.st, Err("DropTypeNotSupported"), done.calls)
        ELSE done

ExecDrop(st, stmt, fault) ==
    IF stmt.object_type # "Table"
    THEN Outcome(st, Err("DropTypeNotSupported"), << >>)
    ELSE DropNames(st, stmt.names, 1, fault, << >>)

\* The fall-through arm answering like a DROP of an unsupported object kind.
ExecOtherWrongError(st, stmt) == Outcome(st, Err("DropTypeNotSupported"), << >>)

\* The fall-through arm: every other statement kind.
ExecOther(st, stmt) == Outcome(st, Err("QueryNotSupported"), << >>)

execute(st, stmt, fault) ==
    CASE stmt.kind = "CreateTable" -> ExecCreateTable(st, stmt, fault)
      [] stmt.kind = "Query" -> ExecQuery(st, stmt, fault)
      [] stmt.kind = "Insert" -> ExecInsert(st, stmt, fault)
      [] stmt.kind = "Update" -> ExecUpdate(st, stmt, fault)
      [] stmt.kind = "Delete" -> ExecDelete(st, stmt, fault)
      [] stmt.kind = "Drop" -> ExecDrop(st, stmt, fault)
      [] OTHER -> ExecOther(st, stmt)

(* ----------------------------- statements ------------------------------ *)

Selections == {NoWhere, Eq("a", "1"), IsNull("a"), Eq("a", "x"), Eq("b", "1")}

AssignmentLists ==
    { <<Assign("a", Lit(NULL))>>,
      <<Assign("a", Lit("1"))>>,
      <<Assign("a", Col("b"))>>,
      <<Assign("a", Col("b")), Assign("b", Col("a"))>>,
      <<Assign("b", Col("a")), Assign("a", Col("b"))>> }

InsertColumns == {<< >>, <<"b", "a">>}

Sources == UNION {[1..n -> Values] : n \in 1..2}

NameLists == UNION {[1..n -> Names] : n \in 1..MaxNames}

CreateTableStatements ==
    [kind : {"CreateTable"}, name : Names, columns : ColumnLists]

\* Statements on a malformed name are drawn with one choice of their other parts.
QueryStatements ==
    [kind : {"Query"}, table_name : Tables, selection : Selections]
    \cup [kind : {"Query"}, table_name : {BadName}, selection : {NoWhere}]

InsertStatements ==
    [kind : {"Insert"}, table_name : Tables, columns : InsertColumns, source : Sources]
    \cup [kind : {"Insert"}, table_name : {BadName}, columns : {<< >>},
          source : {<<"1">>}]

UpdateStatements ==
    [kind : {"Update"}, table_name : Tables, selection : Selections,
     assignments : AssignmentLists]
    \cup [kind : {"Update"}, table_name : {BadName}, selection : {NoWhere},
          assignments : {<<Assign("a", Lit("1"))>>}]

DeleteStatements ==
    [kind : {"Delete"}, table_name : Tables, selection : Selections]
    \cup [kind : {"Delete"}, table_name : {BadName}, selection : {NoWhere}]

\* A DROP of another object kind is drawn with two name lists.
DropStatements ==
    [kind : {"Drop"}, object_type : {"Table"}, names : NameLists]
    \cup [kind : {"Drop"}, object_type : {"View"},
          names : {<<"t1">>, <<"t1", BadName>>}]

OtherStatements ==
    [kind : {"StartTransaction", "Commit"}]

(* ------------------------------ behaviour ------------------------------ *)
(* storage is the backend's state.  While a call of execute is being       *)
(* answered, last holds its statement, its result and the storage calls it *)
(* made, and pre the storage state it started from; Return hands the       *)
(* result to the caller and forgets them.                                  *)

NoStatement == [kind |-> "None"]

\* The most calls to the backend, after the schema lookup, the statement can
\* come to make on st.
Fallible(st, stmt) ==
    CASE stmt.kind = "CreateTable" -> 1
      [] stmt.kind = "Insert" -> 2
      [] stmt.kind = "Query" -> 1
      [] stmt.kind \in {"Update", "Delete"} ->
            IF stmt.table_name \in Tables
            THEN Cardinality(KeysOf(st, stmt.table_name)) + 1 ELSE 1
      [] stmt.kind = "Drop" ->
            IF stmt.object_type = "Table" THEN Len(stmt.names) ELSE 0
      [] OTHER -> 0

\* The backend faults the statement can meet: none (0), or the n-th of those
\* calls rejected.
Faults(st, stmt) == 0..Fallible(st, stmt)

NoCall == [stmt |-> NoStatement, res |-> Err(""), calls |-> << >>]

Idle == last.stmt.kind = "None"

Answer(stmt, out) == [stmt |-> stmt, res |-> out.res, calls |-> out.calls]

Init ==
    /\ storage = EmptyStore
    /\ pre = EmptyStore
    /\ last = NoCall

CreateTable ==
    /\ Idle
    /\ \E stmt \in CreateTableStatements : \E fault \in Faults(storage, stmt) :
          LET out == execute(storage, stmt, fault)
          IN  /\ storage' = out.st
              /\ pre' = storage
              /\ last' = Answer(stmt, out)

Query ==
    /\ Idle
    /\ \E stmt \in QueryStatements : \E fault \in Faults(storage, stmt) :
          LET out == execute(storage, stmt, fault)
          IN  /\ storage' = out.st
              /\ pre' = storage
              /\ last' = Answer(stmt, out)

\* The key generator is capped: no INSERT once MaxId keys were handed out.
Insert ==
    /\ Idle
    /\ storage.nextId <= MaxId
    /\ \E stmt \in InsertStatements : \E fault \in Faults(storage, stmt) :
          LET out == execute(storage, stmt, fault)
          IN  /\ storage' = out.st
              /\ pre' = storage
              /\ last' = Answer(stmt, out)

Update ==
    /\ Idle
    /\ \E stmt \in UpdateStatements : \E fault \in Faults(storage, stmt) :
          LET out == execute(storage, stmt, fault)
          IN  /\ storage' = out.st
              /\ pre' = storage
              /\ last' = Answer(stmt, out)

Delete ==
    /\ Idle
    /\ \E stmt \in DeleteStatements : \E fault \in Faults(storage, stmt) :
          LET out == execute(storage, stmt, fault)
          IN  /\ storage' = out.st
              /\ pre' = storage
              /\ last' = Answer(stmt, out)

Drop ==
    /\ Idle
    /\ \E stmt \in DropStatements : \E fault \in Faults(storage, stmt) :
          LET out == execute(storage, stmt, fault)
          IN  /\ storage' = out.st
              /\ pre' = storage
              /\ last' = Answer(stmt, out)

Other ==
    /\ Idle
    /\ \E stmt \in OtherStatements :
          LET out == execute(storage, stmt, 0)
          IN  /\ storage' = out.st
              /\ pre' = storage
              /\ last' = Answer(stmt, out)

Return ==
    /\ ~Idle
    /\ pre' = storage
    /\ last' = NoCall
    /\ UNCHANGED storage

Next ==
    \/ CreateTable
    \/ Query
    \/ Insert
    \/ Update
    \/ Delete
    \/ Drop
    \/ Other
    \/ Return

Spec == Init /\ [][Next]_vars

TypeOK ==
    /\ storage.nextId \in 1..(MaxId + 1)
    /\ \A k \in DOMAIN storage.data : k[1] \in Tables /\ k[2] < storage.nextId

(* ------------------------- reading a finished call --------------------- *)

Kind == last.stmt.kind

Calls == last.calls

Called(op) == \E i \in 1..Len(Calls) : Calls[i].op = op

\* The calls of the operation that succeeded, in order.
Succeeded(op) == SelectSeq(Calls, LAMBDA c : c.op = op /\ c.ok)

\* The table an UPDATE, DELETE, INSERT or SELECT names, and its columns before.
Target == last.stmt.table_name

TargetColumns == pre.schemas[Target]

\* How the statement's predicate evaluates on the row stored at k before the call.
Verdict(k) == FilterCheck(last.stmt.selection, TargetColumns, pre.data[k])

\* The rows of the target table the predicate held for before the call.
Matching == {k \in KeysOf(pre, Target) : Verdict(k) = "true"}

MatchingInOrder == SelectSeq(ScanOrder(pre, Target), LAMBDA k : Verdict(k) = "true")

\* The first n of them.
FirstMatching(n) == {MatchingInOrder[i] : i \in 1..n}

\* The names of a DROP before position n.
NamesBefore(n) == {last.stmt.names[i] : i \in 1..(n - 1)}

SameRows(keys) ==
    \A k \in keys : k \in DOMAIN storage.data /\ storage.data[k] = pre.data[k]

(* -------------------------------- claims ------------------------------- *)

\* C1: a statement of any other kind is answered QueryNotSupported, makes no
\* storage call at all and leaves the storage state as it was.
C1_UnsupportedStatement ==
    Kind \notin {"None", "CreateTable", "Query", "Insert", "Update", "Delete", "Drop"}
    => /\ last.res = Err("QueryNotSupported")
       /\ Calls = << >>
       /\ storage = pre

\* An unsupported statement was answered on a storage holding a table and a row.
C1_Witness ==
    /\ Kind = "Commit"
    /\ last.res.err = "QueryNotSupported"
    /\ DOMAIN pre.data # {}
    /\ \E t \in Tables : pre.schemas[t] # NoSchema

\* C2: a DROP of an object kind other than Table is answered
\* DropTypeNotSupported before any name is resolved or schema removed: no
\* storage call is made and the storage state is as it was.
C2_DropKindCheckedFirst ==
    (Kind = "Drop" /\ last.stmt.object_type # "Table")
    => /\ last.res = Err("DropTypeNotSupported")
       /\ Calls = << >>
       /\ storage = pre

\* A DROP VIEW naming an existing table and a malformed name was answered.
C2_Witness ==
    /\ Kind = "Drop"
    /\ last.stmt.object_type = "View"
    /\ last.res.err = "DropTypeNotSupported"
    /\ \E i, j \in 1..Len(last.stmt.names) :
          /\ last.stmt.names[i] \in Tables
          /\ pre.schemas[last.stmt.names[i]] # NoSchema
          /\ last.stmt.names[j] = BadName

\* C3: a successful UPDATE returns the number of rows its predicate held for
\* before the statement, and every row the predicate was false or unknown for
\* is still stored under its key with the values it had.
C3_UpdateCountAndFrame ==
    (Kind = "Update" /\ last.res.ok)
    => /\ last.res.payload = "Update"
       /\ last.res.count = Cardinality(Matching)
       /\ SameRows(KeysOf(pre, Target) \ Matching)

\* An UPDATE changed one row and passed over another its predicate did not hold for.
C3_Witness ==
    /\ Kind = "Update"
    /\ last.res.ok
    /\ last.res.count = 1
    /\ \E k \in Matching : storage.data[k] # pre.data[k]
    /\ \E k \in KeysOf(pre, Target) : Verdict(k) \in {"false", "unknown"}

\* C4: a successful DELETE returns the number of rows its predicate held for
\* before the statement, none of those keys holds a row afterwards, and every
\* other row of any table is still stored under its key with its values.
C4_DeleteCountAndFrame ==
    (Kind = "Delete" /\ last.res.ok)
    => /\ last.res.payload = "Delete"
       /\ last.res.count = Cardinality(Matching)
       /\ Matching \cap DOMAIN storage.data = {}
       /\ SameRows(DOMAIN pre.data \ Matching)

\* A DELETE removed one row and kept another of the same table.
C4_Witness ==
    /\ Kind = "Delete"
    /\ last.res.ok
    /\ last.res.count = 1
    /\ KeysOf(pre, Target) \ Matching # {}
    /\ KeysOf(storage, Target) = KeysOf(pre, Target) \ Matching

\* C5: when a call fails during an UPDATE, DELETE or DROP the statement
\* returns an error and no count or success payload; the failing call is the
\* last one made; the rows (names) processed before it stay rewritten
\* (removed), and nothing else in storage is changed.
C5_PartialFailure ==
    Kind \in {"Update", "Delete", "Drop"}
    => /\ (\E i \in 1..Len(Calls) : ~Calls[i].ok) => ~last.res.ok
       /\ ~last.res.ok =>
            /\ last.res.payload = "" /\ last.res.count = 0
            /\ \A i \in 1..(Len(Calls) - 1) : Calls[i].ok
            /\ storage.schemas = IF Kind = "Drop"
                  THEN [t \in Tables |->
                          IF t \in NamesBefore(Len(Succeeded("del_schema")) + 1)
                          THEN NoSchema ELSE pre.schemas[t]]
                  ELSE pre.schemas
            /\ storage.nextId = pre.nextId
            /\ (Kind = "Drop" \/ ~Called("fetch")) => storage.data = pre.data
            /\ (Kind = "Update" /\ Called("fetch")) =>
                  /\ DOMAIN storage.data = DOMAIN pre.data
                  /\ \A k \in FirstMatching(Len(Succeeded("set_data"))) :
                        storage.data[k] =
                           UpdateApply(last.stmt.assignments, TargetColumns,
                                       pre.data[k]).val
                  /\ SameRows(DOMAIN pre.data
                              \ FirstMatching(Len(Succeeded("set_data"))))
            /\ (Kind = "Delete" /\ Called("fetch")) =>
                  /\ DOMAIN storage.data =
                        DOMAIN pre.data \ FirstMatching(Len(Succeeded("del_data")))
                  /\ SameRows(DOMAIN storage.data)

\* An UPDATE failed on its second matched row after rewriting the first.
C5_Witness ==
    /\ Kind = "Update"
    /\ ~last.res.ok
    /\ Len(Succeeded("set_data")) = 1
    /\ Cardinality(Matching) = 2
    /\ storage.data[MatchingInOrder[1]] # pre.data[MatchingInOrder[1]]
    /\ storage.data[MatchingInOrder[2]] = pre.data[MatchingInOrder[2]]

\* The position of the first name of a DROP that does not resolve.
FirstUnresolved ==
    CHOOSE j \in 1..Len(last.stmt.names) :
        /\ last.stmt.names[j] \notin Tables
        /\ \A i \in 1..(j - 1) : last.stmt.names[i] \in Tables

\* C6 as stated: a statement that fails to resolve a name leaves every schema
\* and every row as they were.
C6_NameFailureNoEffect ==
    last.res.err = "TableName" => storage = pre

\* C6, amended: a statement that fails to resolve a name changes no row and
\* generates no key; a CREATE TABLE, INSERT, UPDATE, DELETE or SELECT makes no
\* storage call and leaves storage as it was; a DROP has removed the schemas
\* of the names listed before the first one that does not resolve, and has
\* changed nothing else (nothing at all when that name is the first).
C6_NameFailureEffects ==
    last.res.err = "TableName"
    => /\ storage.data = pre.data
       /\ storage.nextId = pre.nextId
       /\ Kind # "Drop" => (storage = pre /\ Calls = << >>)
       /\ Kind = "Drop" =>
            /\ storage.schemas =
                  [t \in Tables |-> IF t \in NamesBefore(FirstUnresolved)
                                    THEN NoSchema ELSE pre.schemas[t]]
            /\ \A t \in NamesBefore(FirstUnresolved) : pre.schemas[t] # NoSchema
            /\ Len(Calls) = FirstUnresolved - 1
            /\ FirstUnresolved = 1 => storage = pre

\* A DROP TABLE removed a table's schema and then failed on a malformed name.
C6_Witness ==
    /\ Kind = "Drop"
    /\ last.res.err = "TableName"
    /\ FirstUnresolved = 2
    /\ pre.schemas[last.stmt.names[1]] # NoSchema
    /\ storage.schemas[last.stmt.names[1]] = NoSchema

\* C7: a successful INSERT stores its row under a key that was never handed
\* out before and that holds no row, so it overwrites nothing: the stored rows
\* are those of before plus the new one, which holds the values returned; and
\* no statement other than UPDATE and DELETE changes or removes a stored row.
C7_InsertKeysFresh ==
    /\ (Kind = "Insert" /\ last.res.ok) =>
          /\ last.res.payload = "Insert"
          /\ Len(Succeeded("set_data")) = 1
          /\ LET key == Succeeded("set_data")[1].arg
             IN  /\ key[1] = Target
                 /\ pre.nextId <= key[2] /\ key[2] < storage.nextId
                 /\ key \notin DOMAIN pre.data
                 /\ DOMAIN storage.data = DOMAIN pre.data \cup {key}
                 /\ storage.data[key] = last.res.row
    /\ Kind \notin {"Update", "Delete"} => SameRows(DOMAIN pre.data)
    /\ \A k \in DOMAIN storage.data : k[2] < storage.nextId

\* A second row was inserted into a table that already held one.
C7_Witness ==
    /\ Kind = "Insert"
    /\ last.res.ok
    /\ KeysOf(pre, Target) # {}
    /\ Cardinality(KeysOf(storage, Target)) = Cardinality(KeysOf(pre, Target)) + 1

\* C8: an UPDATE, successful or not, calls neither gen_id nor del_data, makes
\* every set_data call at the key the iteration has just yielded, and leaves
\* the set of stored keys and the key generator as they were.
C8_UpdateKeepsKeys ==
    Kind = "Update"
    => /\ ~Called("gen_id")
       /\ ~Called("del_data")
       /\ \A i \in 1..Len(Calls) :
             Calls[i].op = "set_data" =>
                /\ i > 1
                /\ Calls[i - 1].op = "next" /\ Calls[i - 1].ok
                /\ Calls[i - 1].arg = Calls[i].arg
                /\ Calls[i].arg \in KeysOf(pre, Target)
       /\ DOMAIN storage.data = DOMAIN pre.data
       /\ storage.nextId = pre.nextId

\* An UPDATE rewrote two rows with new values.
C8_Witness ==
    /\ Kind = "Update"
    /\ last.res.ok
    /\ last.res.count = 2
    /\ \A k \in Matching : storage.data[k] # pre.data[k]

\* The assignments of the statement that target the column at position i.
TargetingColumn(i) ==
    {j \in 1..Len(last.stmt.assignments) :
        i <= Len(TargetColumns) /\ last.stmt.assignments[j].id = TargetColumns[i]}

\* C9: after a successful UPDATE every matched row holds, in each assigned
\* column, the assignment's expression evaluated against the row as it was
\* before the statement, and in every other column its original value; the
\* same statement with its assignments in the opposite order leaves the same
\* storage.
C9_AssignmentsReadOriginalRow ==
    (Kind = "Update" /\ last.res.ok)
    => /\ \A k \in Matching :
             /\ Len(storage.data[k]) = Len(pre.data[k])
             /\ \A i \in 1..Len(pre.data[k]) :
                   /\ \A j \in TargetingColumn(i) :
                         storage.data[k][i] =
                            Evaluate(TargetColumns, pre.data[k],
                                     last.stmt.assignments[j].value).val
                   /\ TargetingColumn(i) = {} => storage.data[k][i] = pre.data[k][i]
       /\ execute(pre, [last.stmt EXCEPT !.assignments = Reverse(@)], 0).st = storage

\* UPDATE SET a = b, b = a exchanged the two different values of a row.
C9_Witness ==
    /\ Kind = "Update"
    /\ last.res.ok
    /\ last.stmt.assignments = <<Assign("a", Col("b")), Assign("b", Col("a"))>>
    /\ \E k \in Matching :
          /\ pre.data[k] = <<"1", NULL>>
          /\ storage.data[k] = <<NULL, "1">>

\* C10: after a successful CREATE TABLE get_schema on the resolved name
\* returns that name and the declared columns in the declared order; a CREATE
\* TABLE calls set_schema once and nothing else, and changes no row and no key
\* generator state.
C10_CreateTableRoundTrip ==
    Kind = "CreateTable"
    => /\ last.res.ok =>
             /\ last.res.payload = "Create"
             /\ get_schema(storage, last.stmt.name) =
                   Reply(TRUE, storage,
                         [table_name |-> last.stmt.name,
                          column_defs |-> last.stmt.columns])
             /\ Calls = <<Call("set_schema", TableOp(last.stmt.name), TRUE)>>
       /\ \A i \in 1..Len(Calls) : Calls[i].op = "set_schema"
       /\ storage.data = pre.data
       /\ storage.nextId = pre.nextId

\* A CREATE TABLE declared two columns for a table that had one, and held a row.
C10_Witness ==
    /\ Kind = "CreateTable"
    /\ last.res.ok
    /\ last.stmt.columns = <<"a", "b">>
    /\ pre.schemas[last.stmt.name] = <<"a">>
    /\ KeysOf(pre, last.stmt.name) # {}

\* C11: in every reachable storage state every stored row of a table that has
\* a schema holds exactly one value per column of that schema.
C11_RowsAlignedWithSchema ==
    \A k \in DOMAIN storage.data :
        storage.schemas[k[1]] # NoSchema
        => Len(storage.data[k]) = Len(storage.schemas[k[1]])

\* The UPDATE names an existing table and assigns to a column it does not have.
AssignsUnknownColumn ==
    /\ Kind = "Update"
    /\ Target \in Tables
    /\ TargetColumns # NoSchema
    /\ \E j \in 1..Len(last.stmt.assignments) :
          last.stmt.assignments[j].id \notin Range(TargetColumns)

\* C12: an UPDATE with an assignment to a column the table does not have fails
\* when the assignments are validated, before the scan is opened: no row is
\* fetched or written and storage is as it was.
C12_UnknownColumnTouchesNoRow ==
    AssignsUnknownColumn
    => /\ last.res = Err("Update")
       /\ Calls = <<Call("get_schema", TableOp(Target), TRUE)>>
       /\ storage = pre

\* UPDATE SET a = b, b = a WHERE a = 1 was refused on a table with the single
\* column a that held a row with a = 1.
C12_Witness ==
    /\ AssignsUnknownColumn
    /\ last.res.err = "Update"
    /\ Len(last.stmt.assignments) = 2
    /\ Matching # {}

\* The operation an UPDATE or DELETE mutates a row with.
WriteOp == IF Kind = "Update" THEN "set_data" ELSE "del_data"

\* C13: an UPDATE or DELETE mutates each row as soon as the scan yields it,
\* before the next row is pulled: in the order of its calls every row yielded
\* is followed at once by the write or removal at that row's key (or by the
\* statement's failure), and every write or removal follows at once the
\* yielding of its row.
C13_MutationFollowsEachRow ==
    Kind \in {"Update", "Delete"}
    => \A i \in 1..Len(Calls) :
          /\ (Calls[i].op = "next" /\ Calls[i].ok) =>
                IF i < Len(Calls)
                THEN Calls[i + 1].op = WriteOp /\ Calls[i + 1].arg = Calls[i].arg
                ELSE Kind = "Update" /\ last.res.err = "Evaluate"
          /\ Calls[i].op \in {"set_data", "del_data"} =>
                /\ Calls[i].op = WriteOp
                /\ i > 1
                /\ Calls[i - 1] = Call("next", Calls[i].arg, TRUE)
          /\ (Calls[i].op = "next" /\ i > 1) =>
                Calls[i - 1].op \in {"fetch", WriteOp} /\ Calls[i - 1].ok

\* A DELETE removed the first matched row before it pulled the second, and
\* the second removal was rejected: the first row is gone, the second kept.
C13_Witness ==
    /\ Kind = "Delete"
    /\ Cardinality(Matching) = 2
    /\ last.res.err = "Storage"
    /\ Len(Calls) = 6
    /\ Calls[3] = Call("next", MatchingInOrder[1], TRUE)
    /\ Calls[4] = Call("del_data", MatchingInOrder[1], TRUE)
    /\ Calls[5] = Call("next", MatchingInOrder[2], TRUE)
    /\ Calls[6] = Call("del_data", MatchingInOrder[2], FALSE)
    /\ MatchingInOrder[1] \notin DOMAIN storage.data
    /\ MatchingInOrder[2] \in DOMAIN storage.data

\* C14: a successful UPDATE or DELETE without a WHERE clause matches every row
\* of the table: the count returned is the number of rows the table held
\* before the statement, one write or removal was made per row, the UPDATE
\* left every row with the assignments applied and the DELETE left the table
\* empty.
C14_NoWhereMatchesEveryRow ==
    (Kind \in {"Update", "Delete"} /\ last.res.ok /\ last.stmt.selection = NoWhere)
    => /\ Matching = KeysOf(pre, Target)
       /\ last.res.count = Cardinality(KeysOf(pre, Target))
       /\ {c.arg : c \in Range(Succeeded(WriteOp))} = KeysOf(pre, Target)
       /\ Kind = "Delete" => KeysOf(storage, Target) = {}
       /\ Kind = "Update" =>
             /\ KeysOf(storage, Target) = KeysOf(pre, Target)
             /\ \A k \in KeysOf(pre, Target) :
                   storage.data[k] =
                      UpdateApply(last.stmt.assignments, TargetColumns, pre.data[k]).val

\* UPDATE SET a = NULL without WHERE rewrote both rows of a table.
C14_Witness ==
    /\ Kind = "Update"
    /\ last.stmt.selection = NoWhere
    /\ last.res.ok
    /\ last.res.count = 2
    /\ Cardinality(KeysOf(pre, Target)) = 2
    /\ \A k \in KeysOf(pre, Target) : pre.data[k][1] = "1" /\ storage.data[k][1] = NULL

\* The rows of the target table on which the predicate fails to evaluate.
Failing == {k \in KeysOf(pre, Target) : Verdict(k) = "error"}

\* C15: in an UPDATE or DELETE a row on which the predicate fails to evaluate
\* is yielded as an error that ends the statement with that error: the
\* statement never succeeds while the table holds such a row, and when no
\* write was rejected before the scan reached it the statement returns the
\* evaluation error; a row the predicate is unknown for is passed over, is
\* not yielded, stays as it was and causes no error.
C15_EvaluationFailurePropagates ==
    (Kind \in {"Update", "Delete"} /\ Called("fetch"))
    => /\ last.res.ok => Failing = {}
       /\ \A i \in 1..Len(Calls) :
             (Calls[i].op = "next" /\ ~Calls[i].ok) =>
                /\ i = Len(Calls)
                /\ Calls[i].arg \in Failing
                /\ last.res = Err("Evaluate")
       /\ (Failing # {} /\ \A i \in 1..Len(Calls) : Calls[i].op = "next" \/ Calls[i].ok)
             => last.res = Err("Evaluate")
       /\ \A k \in KeysOf(pre, Target) :
             Verdict(k) = "unknown" =>
                /\ \A i \in 1..Len(Calls) : Calls[i].arg # k
                /\ SameRows({k})
       /\ (Kind = "Delete" /\ Failing = {} /\ \A i \in 1..Len(Calls) : Calls[i].ok)
             => last.res.ok

\* DELETE WHERE a = 'x' passed over a row whose a is null and failed on the
\* next row, whose a is a number; both rows are still stored.
C15_Witness ==
    /\ Kind = "Delete"
    /\ last.res.err = "Evaluate"
    /\ Cardinality(KeysOf(pre, Target)) = 2
    /\ Verdict(ScanOrder(pre, Target)[1]) = "unknown"
    /\ Verdict(ScanOrder(pre, Target)[2]) = "error"
    /\ Calls[Len(Calls)] = Call("next", ScanOrder(pre, Target)[2], FALSE)
    /\ storage = pre

\* C16: after a successful DROP TABLE get_schema fails for every table named;
\* the statement made one successful del_schema call per name, in the listed
\* order, and no other call; the schema of every table not named, every row
\* and the key generator are as they were; the payload is table-dropped.
C16_DropRemovesEachSchema ==
    (Kind = "Drop" /\ last.res.ok)
    => /\ last.res = Ok("DropTable", 0, << >>)
       /\ \A i \in 1..Len(last.stmt.names) :
             /\ last.stmt.names[i] \in Tables
             /\ pre.schemas[last.stmt.names[i]] # NoSchema
             /\ ~get_schema(storage, last.stmt.names[i]).ok
       /\ Calls = [i \in 1..Len(last.stmt.names) |->
                      Call("del_schema", TableOp(last.stmt.names[i]), TRUE)]
       /\ \A t \in Tables \ Range(last.stmt.names) :
             storage.schemas[t] = pre.schemas[t]
       /\ storage.data = pre.data
       /\ storage.nextId = pre.nextId

\* DROP TABLE t2, t1 removed the schemas of both tables, t2 first.
C16_Witness ==
    /\ Kind = "Drop"
    /\ last.res.ok
    /\ last.stmt.names = <<"t2", "t1">>
    /\ Calls[1].arg = TableOp("t2") /\ Calls[2].arg = TableOp("t1")
    /\ \A t \in Tables : pre.schemas[t] # NoSchema /\ storage.schemas[t] = NoSchema

\* C17: a SELECT leaves storage as it was and makes no mutating storage call;
\* when it succeeds its payload is selected-rows holding exactly the rows the
\* predicate holds for, in scan order; when the predicate fails on a row of
\* the table the statement returns that error, and an error carries no rows.
C17_SelectMaterializesOrFails ==
    Kind = "Query"
    => /\ storage = pre
       /\ \A i \in 1..Len(Calls) : Calls[i].op \in {"get_schema", "fetch"}
       /\ ~last.res.ok => last.res.row = << >> /\ last.res.payload = ""
       /\ last.res.ok =>
             /\ last.res.payload = "Select"
             /\ Failing = {}
             /\ last.res.row = [i \in 1..Len(MatchingInOrder) |->
                                   pre.data[MatchingInOrder[i]]]
       /\ (Succeeded("fetch") # << >> /\ Failing # {}) => last.res = Err("Evaluate")
       /\ (Called("fetch") /\ Succeeded("fetch") = << >>) => last.res = Err("Storage")

\* A SELECT returned two different rows in the order of the scan.
C17_Witness ==
    /\ Kind = "Query"
    /\ last.res.ok
    /\ Len(last.res.row) = 2
    /\ last.res.row[1] # last.res.row[2]
    /\ last.res.row[1] = pre.data[ScanOrder(pre, Target)[1]]

\* C19 as stated: an INSERT that fails because the table is unknown or the row
\* cannot be constructed leaves the storage state, the key generator included,
\* as it was; on an unknown table it calls neither gen_id nor set_data, and
\* when the row cannot be constructed it does not call set_data.
C19_FailedInsertNoEffect ==
    (Kind = "Insert" /\ last.res.err \in {"Schema", "Row"})
    => /\ storage = pre
       /\ last.res.err = "Schema" => ~Called("gen_id") /\ ~Called("set_data")
       /\ last.res.err = "Row" => ~Called("set_data")

\* C19, amended: a failed INSERT adds and changes no row and no schema.  When
\* the name does not resolve or the table is unknown it calls neither gen_id
\* nor set_data and storage is as it was.  When the row cannot be constructed
\* it has already asked storage for a key: gen_id was called once, set_data
\* was not, and the key generator has moved on by that one key, which no row
\* is stored under.  The same holds when storage rejects the write.  When
\* storage fails to generate the key the row is not constructed, set_data is
\* not called and storage is as it was.
C19_FailedInsertKeepsRows ==
    (Kind = "Insert" /\ ~last.res.ok)
    => /\ storage.data = pre.data
       /\ storage.schemas = pre.schemas
       /\ last.res.row = << >>
       /\ last.res.err \in {"TableName", "Schema"} =>
             /\ ~Called("gen_id") /\ ~Called("set_data")
             /\ storage = pre
       /\ last.res.err = "Row" =>
             /\ Calls = <<Call("get_schema", TableOp(Target), TRUE),
                          Call("gen_id", <<Target, pre.nextId>>, TRUE)>>
             /\ storage.nextId = pre.nextId + 1
             /\ <<Target, pre.nextId>> \notin DOMAIN storage.data
       /\ (last.res.err = "Storage" /\ Called("set_data")) =>
             /\ Len(Calls) = 3
             /\ Calls[2] = Call("gen_id", <<Target, pre.nextId>>, TRUE)
             /\ Calls[3] = Call("set_data", <<Target, pre.nextId>>, FALSE)
             /\ storage.nextId = pre.nextId + 1
       /\ (last.res.err = "Storage" /\ ~Called("set_data")) =>
             /\ Calls = <<Call("get_schema", TableOp(Target), TRUE),
                          Call("gen_id", TableOp(Target), FALSE)>>
             /\ storage = pre
       /\ last.res.err \in {"TableName", "Schema", "Row", "Storage"}

\* An INSERT of two values into a table of one column, which held a row, was
\* refused when the row was constructed; the key asked for is spent.
C19_Witness ==
    /\ Kind = "Insert"
    /\ last.res.err = "Row"
    /\ Len(last.stmt.source) = 2
    /\ TargetColumns = <<"a">>
    /\ KeysOf(pre, Target) # {}
    /\ storage.nextId = pre.nextId + 1
    /\ storage.data = pre.data

\* The positions of the statement's calls of the operation.
CallsOf(op) == {i \in 1..Len(Calls) : Calls[i].op = op}

\* C20: an UPDATE or DELETE, successful or not, mutates each row at most once:
\* the scan yields no key twice, no two writes (removals) are made at the same
\* key, and there is at most one per key yielded; a successful statement
\* returns as its count the number of set_data (del_data) calls it made.
C20_EachRowMutatedOnce ==
    Kind \in {"Update", "Delete"}
    => /\ \A i, j \in CallsOf("next") : i # j => Calls[i].arg # Calls[j].arg
       /\ \A i, j \in CallsOf(WriteOp) : i # j => Calls[i].arg # Calls[j].arg
       /\ {Calls[i].arg : i \in CallsOf(WriteOp)}
             \subseteq {Calls[i].arg : i \in CallsOf("next")}
       /\ CallsOf("set_data") \cup CallsOf("del_data") = CallsOf(WriteOp)
       /\ last.res.ok =>
             /\ last.res.count = Cardinality(CallsOf(WriteOp))
             /\ \A i \in CallsOf(WriteOp) : Calls[i].ok

\* A DELETE removed two rows with two del_data calls and returned the count 2.
C20_Witness ==
    /\ Kind = "Delete"
    /\ last.res.ok
    /\ last.res.count = 2
    /\ Cardinality(CallsOf("del_data")) = 2
    /\ Cardinality({Calls[i].arg : i \in CallsOf("del_data")}) = 2

(* ------------------------- execute, step by step ----------------------- *)
(* A second behaviour over the same variables, in which a call of execute  *)
(* is not answered at once: the caller hands in a statement, the arm runs  *)
(* (a SELECT, UPDATE or DELETE one turn of its loop at a time, each turn    *)
(* pulling one item from the scan and collecting or writing it), and the   *)
(* result is handed back.                                                  *)
(* While a call runs, last also holds the scan's position.  Statements are *)
(* drawn on one table.                                                     *)

LiveTable == "t1"

LiveStatements ==
    {s \in CreateTableStatements : s.name = LiveTable}
    \cup {s \in QueryStatements \cup InsertStatements \cup UpdateStatements
                \cup DeleteStatements : s.table_name \in {LiveTable, BadName}}
    \cup {s \in DropStatements : s.names = <<LiveTable>>}
    \cup {s \in OtherStatements : s.kind = "Commit"}

\* A scan under way: the keys still to visit, the table's columns, the rows
\* counted and the rows collected so far.
Scan(keys, columns, num, rows) ==
    [keys |-> keys, columns |-> columns, num |-> num, rows |-> rows]

NoScan == Scan(<< >>, << >>, 0, << >>)

Running(phase, stmt, fault, res, calls, scan) ==
    [phase |-> phase, stmt |-> stmt, fault |-> fault, res |-> res,
     calls |-> calls, scan |-> scan]

LiveIdle == Running("idle", NoStatement, 0, Err(""), << >>, NoScan)

\* What precedes the loop of a SELECT, UPDATE or DELETE: the name resolved,
\* the columns fetched, an UPDATE's assignments validated, the scan opened.
ScanOpen(st, stmt, fault) ==
    LET name == get_table_name(stmt.table_name)
        schema == fetch_columns(st, name.val)
        c1 == <<Call("get_schema", TableOp(name.val), TRUE)>>
    IN  IF ~name.ok THEN [ok |-> FALSE, res |-> Err("TableName"), calls |-> << >>,
                          scan |-> NoScan]
        ELSE IF ~schema.ok
        THEN [ok |-> FALSE, res |-> Err("Schema"),
              calls |-> <<Call("get_schema", TableOp(name.val), FALSE)>>,
              scan |-> NoScan]
        ELSE IF stmt.kind = "Update" /\ ~UpdateNew(stmt.assignments, schema.val.column_defs)
        THEN [ok |-> FALSE, res |-> Err("Update"), calls |-> c1, scan |-> NoScan]
        ELSE IF fault = 1
        THEN [ok |-> FALSE, res |-> Err("Storage"),
              calls |-> c1 \o <<Call("fetch", TableOp(name.val), FALSE)>>,
              scan |-> NoScan]
        ELSE [ok |-> TRUE, res |-> Err(""),
              calls |-> c1 \o <<Call("fetch", TableOp(name.val), TRUE)>>,
              scan |-> Scan(ScanOrder(st, name.val), schema.val.column_defs, 0,
                            << >>)]

\* What one turn of the fold leaves: whether the fold is over, the storage,
\* the result when it is over, the calls made so far, the rest of the scan.
Turn(over, st, res, calls, scan) ==
    [over |-> over, st |-> st, res |-> res, calls |-> calls, scan |-> scan]

\* The item the loop's body receives: UPDATE maps the assignments over it.
ScanItem(stmt, scan, next) ==
    IF stmt.kind = "Update" THEN UpdateItem(next, stmt.assignments, scan.columns)
    ELSE next

\* collect's step: the item's error, or its row taken.
CollectStep(st, num, item) ==
    IF ~item.ok THEN Step(FALSE, st, num, << >>, "Evaluate")
    ELSE Step(TRUE, st, num, << >>, "")

\* The loop's body applied to the item.
ScanStep(st, stmt, fault, scan, item) ==
    CASE stmt.kind = "Update" -> UpdateWrite(st, scan.num, item, fault)
      [] stmt.kind = "Delete" -> DeleteStep(st, scan.num, item, fault)
      [] OTHER -> CollectStep(st, scan.num, item)

\* The calls made once the turn is taken.
ScanLog(stmt, calls, next, step) ==
    IF stmt.kind = "Query" THEN calls
    ELSE calls \o <<Call("next", next.key, next.ok)>> \o step.calls

\* The payload when the scan is exhausted.
ScanPayload(stmt, scan) ==
    IF stmt.kind = "Query" THEN Ok("Select", 0, scan.rows)
    ELSE Ok(stmt.kind, scan.num, << >>)

\* The scan after a turn that went well.
ScanRest(stmt, scan, next, step) ==
    Scan(next.rest, scan.columns, step.num,
         IF stmt.kind = "Query" THEN Append(scan.rows, next.row) ELSE << >>)

\* One turn of the loop that tries a failed item again instead of returning.
ScanTurnRetry(st, stmt, calls, scan, next, step) ==
    IF next.done THEN Turn(TRUE, st, ScanPayload(stmt, scan), calls, NoScan)
    ELSE IF ~step.ok THEN Turn(FALSE, st, Err(""), calls, scan)
    ELSE Turn(FALSE, step.st, Err(""), ScanLog(stmt, calls, next, step),
              ScanRest(stmt, scan, next, step))

\* One turn of collect or try_fold, next being the item pulled from the scan
\* and step what the body made of it: the loop ends with the payload when
\* the scan is exhausted and with the error when the body returns one.
ScanTurn(st, stmt, calls, scan, next, step) ==
    IF next.done THEN Turn(TRUE, st, ScanPayload(stmt, scan), calls, NoScan)
    ELSE IF ~step.ok
    THEN Turn(TRUE, st, Err(step.err), ScanLog(stmt, calls, next, step), NoScan)
    ELSE Turn(FALSE, step.st, Err(""), ScanLog(stmt, calls, next, step),
              ScanRest(stmt, scan, next, step))

LiveInit ==
    /\ storage = EmptyStore
    /\ pre = EmptyStore
    /\ last = LiveIdle

\* The caller calls execute with a statement; fault is what the backend will
\* do to the statement's writes.
LiveCall ==
    /\ last.phase = "idle"
    /\ \E stmt \in LiveStatements : \E fault \in Faults(storage, stmt) :
          /\ stmt.kind = "Insert" => storage.nextId <= MaxId
          /\ last' = Running("called", stmt, fault, Err(""), << >>, NoScan)
    /\ pre' = storage
    /\ UNCHANGED storage

\* An arm without a loop over rows runs to its end.
LiveRun ==
    /\ last.phase = "called"
    /\ last.stmt.kind \notin {"Query", "Update", "Delete"}
    /\ \E out \in {execute(storage, last.stmt, last.fault)} :
          /\ storage' = out.st
          /\ last' = Running("answered", last.stmt, last.fault, out.res, out.calls,
                             NoScan)
    /\ UNCHANGED pre

\* A SELECT, UPDATE or DELETE reaches its loop, or fails before it.
LiveOpen ==
    /\ last.phase = "called"
    /\ last.stmt.kind \in {"Query", "Update", "Delete"}
    /\ \E open \in {ScanOpen(storage, last.stmt, last.fault)} :
          last' = Running(IF open.ok THEN "scanning" ELSE "answered", last.stmt,
                          last.fault, open.res, open.calls, open.scan)
    /\ UNCHANGED <<storage, pre>>

\* The loop takes one turn.
LiveStep ==
    /\ last.phase = "scanning"
    /\ \E next \in {FetchNext(storage, last.scan.keys, last.scan.columns,
                              last.stmt.selection)} :
       \E item \in {ScanItem(last.stmt, last.scan, next)} :
       \E step \in {ScanStep(storage, last.stmt, last.fault, last.scan, item)} :
       \E turn \in {ScanTurn(storage, last.stmt, last.calls, last.scan, next, step)} :
          /\ storage' = turn.st
          /\ last' = Running(IF turn.over THEN "answered" ELSE "scanning",
                             last.stmt, last.fault, turn.res, turn.calls, turn.scan)
    /\ UNCHANGED pre

\* The caller takes the result.
LiveReturn ==
    /\ last.phase = "answered"
    /\ pre' = storage
    /\ last' = LiveIdle
    /\ UNCHANGED storage

LiveNext ==
    \/ LiveCall
    \/ LiveRun
    \/ LiveOpen
    \/ LiveStep
    \/ LiveReturn

\* execute is synchronous: once called, its arm keeps running.
SpecLive ==
    /\ LiveInit
    /\ [][LiveNext]_vars
    /\ WF_vars(LiveRun)
    /\ WF_vars(LiveOpen)
    /\ WF_vars(LiveStep)

InProgress == last.phase \in {"called", "scanning"}

Answered == last.phase = "answered"

\* The answer is a payload or an error, not both, and it is the one execute
\* gives for the statement on the storage the call started from.
OneOutcome ==
    /\ last.res.ok => last.res.payload # "" /\ last.res.err = ""
    /\ ~last.res.ok => last.res.payload = "" /\ last.res.err # ""
    /\ Outcome(storage, last.res, last.calls) = execute(pre, last.stmt, last.fault)

\* C18: every call of execute is eventually answered, with exactly one
\* outcome, a payload or an error; an UPDATE or DELETE that mutates the rows
\* of the table it is scanning comes to its end.
C18_EveryCallReturns ==
    /\ [](Answered => OneOutcome)
    /\ InProgress ~> Answered

\* UPDATE SET a = '1' without WHERE rewrote both rows of the table it was
\* scanning, turn by turn, and was answered with the count 2; the rows it
\* wrote still pass its filter.
C18_Witness ==
    /\ Answered
    /\ Kind = "Update"
    /\ last.res = Ok("Update", 2, << >>)
    /\ last.stmt.selection = NoWhere
    /\ \A k \in KeysOf(pre, Target) : pre.data[k][1] = NULL /\ storage.data[k][1] = "1"
    /\ Cardinality(KeysOf(pre, Target)) = 2

====
